---- MODULE Spec2Model ----
(***************************************************************************)
(* Model of linkle's cargo front ends.                                     *)
(*                                                                         *)
(*   SpecSplit  generate_debuginfo_romfs of src/bin/nsp.rs: the ELF debug  *)
(*              splitter, one action per phase of the function.            *)
(*   SpecPath   the same splitter, over the input paths it can be given.   *)
(*   SpecMain   main of src/bin/main.rs: format argument, build-event loop *)
(*              and the two packaging pipelines.                           *)
(*   SpecNsp    main of src/bin/nsp.rs: the binary-scoped configuration    *)
(*              lookup and its packaging pipeline.                         *)
(***************************************************************************)
EXTENDS Integers, Sequences, FiniteSets, TLC

VARIABLES
    \* ---- generate_debuginfo_romfs (nsp.rs) ----
    elf_path,          \* the elf_path argument: [stem, ext]
    fs,                \* file system seen by the splitter: path -> "absent" | "input" | "output"
    input,             \* the image stored in the input file when the run starts
    header,            \* `mut header` of the destructured Elf
    program_headers,   \* `program_headers` of the destructured Elf
    section_headers,   \* `mut section_headers` of the destructured Elf
    data_off,          \* `data_off`
    cur_idx,           \* `cur_idx`
    idx,               \* position of the running for loop
    out,               \* the writes made to `file`, in order
    pc,                \* position in generate_debuginfo_romfs
    \* ---- main (main.rs and nsp.rs) ----
    entry,             \* which binary runs: "main" (main.rs), "nsp" (nsp.rs)
    argv1,             \* env::args().nth(1): "" when missing
    packages,          \* metadata.packages: package id -> its `metadata` value
    stream,            \* build events the toolchain has emitted and main has not read
    seen,              \* build events main has read from the stream, in order
    mpc,               \* position in main
    spawned,           \* subprocesses spawned so far, in order
    artifact,          \* the artifact being packaged
    target_metadata,   \* the configuration resolved for it
    exefs,             \* the staging directory <target dir>/exefs
    disk,              \* final containers in the target dir: file name -> content
    romfs,             \* the asset filesystem built for the artifact ("" when none)
    effects,           \* file-system changes and encoder calls made so far, in order
    printed,           \* lines printed on stdout
    failure            \* how main stopped: [at, env]

svars == <<elf_path, fs, input, header, program_headers, section_headers,
           data_off, cur_idx, idx, out, pc>>

mvars == <<entry, argv1, packages, stream, seen, mpc, spawned, artifact,
           target_metadata, exefs, disk, romfs, effects, printed, failure>>

vars == <<svars, mvars>>

\* ---------------------------------------------------------------------
\* Bounds of the model
\* ---------------------------------------------------------------------
MaxSec  == 2      \* sections of an input image
MaxPh   == 1      \* program headers of an input image
FileLen == 2      \* bytes of the input buffer that sections can point into

\* ---------------------------------------------------------------------
\* goblin constants used by the splitter
\* ---------------------------------------------------------------------
SHT_PROGBITS == 1
SHT_SYMTAB   == 2
SHT_STRTAB   == 3
SHT_NOBITS   == 8

\* ElfHeader::size(&ctx), ProgramHeader::size(&ctx), SectionHeader::size_with(&ctx):
\* the serialized sizes for the container width.
EhdrSize(is_64) == IF is_64 THEN 64 ELSE 52
PhdrSize(is_64) == IF is_64 THEN 56 ELSE 32
ShdrSize(is_64) == IF is_64 THEN 64 ELSE 40

\* ::std::mem::size_of::<ElfHeader>(): the in-memory size of goblin's unified
\* header struct (16 ident bytes, two u16, one u32, three u64, one u32, six
\* u16), the same for both widths.
SizeOfElfHeader == 64

\* ---------------------------------------------------------------------
\* Section names.  A name is a sequence of characters so that starts_with
\* and == are computed, not assumed.
\* ---------------------------------------------------------------------
DebugPrefix  == <<".", "d", "e", "b", "u", "g">>
CommentName  == <<".", "c", "o", "m", "m", "e", "n", "t">>

\* The section-name string table of the input images: entry i is what
\* Strtab holds at name offset i.  ok = FALSE is an entry that is not UTF-8.
NameTable ==
    << [ok |-> TRUE,  s |-> <<".", "t", "e", "x", "t">>],
       [ok |-> TRUE,  s |-> DebugPrefix \o <<"_", "i", "n", "f", "o">>],
       [ok |-> TRUE,  s |-> CommentName],
       [ok |-> TRUE,  s |-> CommentName \o <<"s">>],
       [ok |-> TRUE,  s |-> <<".", "d", "e", "b", "u">>],
       [ok |-> FALSE, s |-> <<>>] >>

\* elf.shdr_strtab.get(sh_name): None past the end of the table, Some(Err)
\* for an entry that is not UTF-8, Some(Ok(s)) otherwise.
StrtabGet(sh_name) ==
    IF sh_name \notin 1..Len(NameTable) THEN [tag |-> "None", s |-> <<>>]
    ELSE IF ~NameTable[sh_name].ok THEN [tag |-> "SomeErr", s |-> <<>>]
    ELSE [tag |-> "SomeOk", s |-> NameTable[sh_name].s]

\* str::starts_with
StartsWith(s, p) == Len(s) >= Len(p) /\ SubSeq(s, 1, Len(p)) = p


\* ---------------------------------------------------------------------
\* Paths
\* ---------------------------------------------------------------------
\* PathBuf::set_extension: replaces the extension, or adds one when the
\* path has none (ext = "").
SetExtension(p, e) == [p EXCEPT !.ext = e]

Exts  == {"", "elf", "debug"}
Paths == [stem : {"app"}, ext : Exts]

\* new_path of generate_debuginfo_romfs
NewPath(p) == SetExtension(p, "debug")

\* ---------------------------------------------------------------------
\* Classification (nsp.rs 145-157)
\* ---------------------------------------------------------------------
\* The first test of the loop body: these types are left alone.
KeepByType(sh_type) ==
    sh_type = SHT_NOBITS \/ sh_type = SHT_SYMTAB \/ sh_type = SHT_STRTAB

\* s.starts_with(".debug") || s == ".comment"
NameKeeps(s) == StartsWith(s, DebugPrefix) \/ s = CommentName

\* Mutant of ClassifySection: demoting also clears the declared size.
ClassifySection_ZeroSize(sec) ==
    IF KeepByType(sec.sh_type) THEN sec
    ELSE LET r == StrtabGet(sec.sh_name) IN
         IF r.tag = "SomeOk" /\ ~NameKeeps(r.s)
         THEN [sec EXCEPT !.sh_type = SHT_NOBITS, !.sh_size = 0]
         ELSE sec

\* One iteration of the classification loop.
ClassifySection(sec) ==
    IF KeepByType(sec.sh_type) THEN sec
    ELSE LET r == StrtabGet(sec.sh_name) IN
         IF r.tag = "SomeOk" /\ ~NameKeeps(r.s)
         THEN [sec EXCEPT !.sh_type = SHT_NOBITS]
         ELSE sec

\* ---------------------------------------------------------------------
\* Layout (nsp.rs 159-176)
\* ---------------------------------------------------------------------
DataOff(is_64, phs) == EhdrSize(is_64) + PhdrSize(is_64) * Len(phs)

\* Mutant of PayloadSize: every section's size is counted.
PayloadSize_Unfiltered(v) == v.sh_size

\* The closure mapped over the section headers to compute shoff.
PayloadSize(v) == IF v.sh_type # SHT_NOBITS THEN v.sh_size ELSE 0

RECURSIVE SumPayload(_)
SumPayload(secs) ==
    IF secs = <<>> THEN 0
    ELSE PayloadSize(Head(secs)) + SumPayload(Tail(secs))

ShOff(doff, secs) == doff + SumPayload(secs)

\* header.e_phoff = size_of::<ElfHeader>()
NewPhoff == SizeOfElfHeader

\* The filter of the section-data loop.
IsWritten(v) == v.sh_type # SHT_NOBITS

\* Mutant of Slice: the payload is taken from the start of the buffer.
Slice_FromStart(buffer, sec) == SubSeq(buffer, 1, sec.sh_size)

\* &buffer[sh_offset .. sh_offset + sh_size]; the slice panics when it
\* ends past the buffer.
SliceInRange(buffer, sec) == sec.sh_offset + sec.sh_size <= Len(buffer)
Slice(buffer, sec) ==
    SubSeq(buffer, sec.sh_offset + 1, sec.sh_offset + sec.sh_size)

\* Mutant of NewShOffset: the section keeps the offset it had in the input.
NewShOffset_Unmoved(cur, sec) == sec.sh_offset

\* section.sh_offset = cur_idx as u64, assigned before cur_idx advances.
NewShOffset(cur, sec) == cur

\* Mutant of HeadersToWrite: only the sections with payload get a header.
HeadersToWrite_PayloadOnly(secs) == SelectSeq(secs, IsWritten)

\* The section headers handed to the final write loop.
HeadersToWrite(secs) == secs

\* ---------------------------------------------------------------------
\* The output file: the sequence of writes made to it.  A write is
\* [kind, size, val]; it occupies `size` bytes after the writes before it.
\* ---------------------------------------------------------------------
EhdrWrite(is_64, h)  == [kind |-> "ehdr", size |-> EhdrSize(is_64), val |-> h]
PhdrWrite(is_64, ph) == [kind |-> "phdr", size |-> PhdrSize(is_64), val |-> ph]
ShdrWrite(is_64, sh) == [kind |-> "shdr", size |-> ShdrSize(is_64), val |-> sh]
DataWrite(bytes)     == [kind |-> "data", size |-> Len(bytes), val |-> bytes]

RECURSIVE WrittenBytes(_)
WrittenBytes(ws) ==
    IF ws = <<>> THEN 0 ELSE Head(ws).size + WrittenBytes(Tail(ws))

\* File position at which write k starts.
PosOfWrite(ws, k) == WrittenBytes(SubSeq(ws, 1, k - 1))

WritesOfKind(ws, kind) == SelectSeq(ws, LAMBDA w : w.kind = kind)

\* ---------------------------------------------------------------------
\* Input images
\* ---------------------------------------------------------------------
SectionTypes == {SHT_PROGBITS, SHT_SYMTAB, SHT_STRTAB, SHT_NOBITS}

\* sh_name ranges over the string table and one offset past its end.
NameOffsets == 1..(Len(NameTable) + 1)

\* A section with a payload-carrying type under every name, and the types the
\* splitter never looks up under a name that resolves and one that does not;
\* each with a one-byte payload at offset 0.
NamedSections ==
    [sh_name : NameOffsets, sh_type : {SHT_PROGBITS}, sh_offset : {0}, sh_size : {1}]
    \cup
    [sh_name : {1, Len(NameTable) + 1}, sh_type : SectionTypes \ {SHT_PROGBITS},
     sh_offset : {0}, sh_size : {1}]

\* Every placement (in the buffer, or running past its end) of a section the
\* splitter demotes (.text) and of one it keeps (.debug_info).
PlacedKinds ==
    {[sh_name |-> 1, sh_type |-> SHT_PROGBITS],
     [sh_name |-> 2, sh_type |-> SHT_PROGBITS]}

PlacedSections ==
    {[sh_name |-> k.sh_name, sh_type |-> k.sh_type, sh_offset |-> o, sh_size |-> n] :
        k \in PlacedKinds, o \in 0..(FileLen - 1), n \in 0..FileLen}

\* A section with no payload in the input (a .bss), of every size: it may
\* declare more bytes than the file holds after its offset.
NoPayloadSections ==
    [sh_name : {1}, sh_type : {SHT_NOBITS}, sh_offset : {FileLen - 1},
     sh_size : 0..FileLen]

SectionSet == NamedSections \cup PlacedSections \cup NoPayloadSections

\* Program header k of an input image; the headers differ in every field.
PhdrOf(k) == [p_type |-> k, p_offset |-> 10 * k]

SeqsUpTo(S, n) == UNION {[1..k -> S] : k \in 0..n}

\* The bytes of the input file that sections point into: byte i has the
\* value i, so that a slice taken from the wrong place differs.
Buffer == [i \in 1..FileLen |-> i]

Images ==
    [is_64 : BOOLEAN,
     program_headers : {[i \in 1..k |-> PhdrOf(i)] : k \in 0..MaxPh},
     section_headers : SeqsUpTo(SectionSet, MaxSec),
     buffer : {Buffer}]

\* The ELF header goblin parses from an image; the table offsets are the
\* input's own.
HeaderOf(img) ==
    [e_phoff |-> EhdrSize(img.is_64),
     e_shoff |-> EhdrSize(img.is_64) + FileLen,
     e_phnum |-> Len(img.program_headers),
     e_shnum |-> Len(img.section_headers)]

NoHeader == [e_phoff |-> 0, e_shoff |-> 0, e_phnum |-> 0, e_shnum |-> 0]

\* ---------------------------------------------------------------------
\* main is not running (the splitter is called on its own)
\* ---------------------------------------------------------------------
NoArtifact == [package_id |-> "", kind |-> {}, name |-> "", file |-> ""]
NoFailure  == [at |-> "", env |-> FALSE]
NoConfig   == [npdm |-> "", romfs |-> "", icon |-> "", nacp |-> ""]

MainIdle ==
    /\ entry = "none"
    /\ argv1 = ""
    /\ packages = <<>>
    /\ stream = <<>>
    /\ seen = <<>>
    /\ mpc = "idle"
    /\ spawned = <<>>
    /\ artifact = NoArtifact
    /\ target_metadata = NoConfig
    /\ exefs = <<>>
    /\ disk = <<>>
    /\ romfs = ""
    /\ effects = <<>>
    /\ printed = <<>>
    /\ failure = NoFailure

\* ---------------------------------------------------------------------
\* generate_debuginfo_romfs
\* ---------------------------------------------------------------------
InitSplitWith(p, img) ==
    /\ elf_path = p
    /\ input = img
    /\ fs = [q \in Paths |-> IF q = p THEN "input" ELSE "absent"]
    /\ header = NoHeader
    /\ program_headers = <<>>
    /\ section_headers = <<>>
    /\ data_off = 0
    /\ cur_idx = 0
    /\ idx = 0
    /\ out = <<>>
    /\ pc = "start"
    /\ MainIdle

\* File::open, read_to_end, Elf::parse, File::create(new_path) and the
\* destructuring of the parsed Elf.  File::create truncates the file at
\* new_path, whatever it held.
Start ==
    /\ pc = "start"
    /\ UNCHANGED mvars
    /\ fs[elf_path] = "input"
    /\ fs' = [fs EXCEPT ![NewPath(elf_path)] = "output"]
    /\ out' = <<>>
    /\ header' = HeaderOf(input)
    /\ program_headers' = input.program_headers
    /\ section_headers' = input.section_headers
    /\ pc' = "classify"
    /\ UNCHANGED <<elf_path, input, data_off, cur_idx, idx>>

\* for section in section_headers.iter_mut() { ... }
Classify ==
    /\ pc = "classify"
    /\ UNCHANGED mvars
    /\ section_headers' =
           [i \in 1..Len(section_headers) |-> ClassifySection(section_headers[i])]
    /\ pc' = "header"
    /\ UNCHANGED <<elf_path, fs, input, header, program_headers, data_off,
                   cur_idx, idx, out>>

\* data_off, shoff, the two header assignments, the header write, the
\* program-header loop and `let mut cur_idx = data_off`.
WriteHeaders ==
    /\ pc = "header"
    /\ UNCHANGED mvars
    /\ LET doff == DataOff(input.is_64, program_headers)
           h    == [header EXCEPT !.e_phoff = NewPhoff,
                                  !.e_shoff = ShOff(doff, section_headers)]
       IN /\ data_off' = doff
          /\ header' = h
          /\ out' = <<EhdrWrite(input.is_64, h)>> \o
                    [i \in 1..Len(program_headers) |->
                        PhdrWrite(input.is_64, program_headers[i])]
          /\ cur_idx' = doff
    /\ idx' = 1
    /\ pc' = "data"
    /\ UNCHANGED <<elf_path, fs, input, program_headers, section_headers>>

\* The section-data loop passes over a section the filter rejects.
SkipSection ==
    /\ pc = "data"
    /\ UNCHANGED mvars
    /\ idx <= Len(section_headers)
    /\ ~IsWritten(section_headers[idx])
    /\ idx' = idx + 1
    /\ UNCHANGED <<elf_path, fs, input, header, program_headers, section_headers,
                   data_off, cur_idx, out, pc>>

\* One iteration of the section-data loop: write the slice, then move the
\* section to cur_idx and advance cur_idx.
WriteSection ==
    /\ pc = "data"
    /\ UNCHANGED mvars
    /\ idx <= Len(section_headers)
    /\ IsWritten(section_headers[idx])
    /\ SliceInRange(input.buffer, section_headers[idx])
    /\ out' = Append(out, DataWrite(Slice(input.buffer, section_headers[idx])))
    /\ section_headers' = [section_headers EXCEPT
                            ![idx].sh_offset = NewShOffset(cur_idx, section_headers[idx])]
    /\ cur_idx' = cur_idx + section_headers[idx].sh_size
    /\ idx' = idx + 1
    /\ UNCHANGED <<elf_path, fs, input, header, program_headers, data_off, pc>>

\* The slice of the section-data loop is out of range: the function panics
\* and leaves the file as written so far.
SlicePanic ==
    /\ pc = "data"
    /\ UNCHANGED mvars
    /\ idx <= Len(section_headers)
    /\ IsWritten(section_headers[idx])
    /\ ~SliceInRange(input.buffer, section_headers[idx])
    /\ pc' = "panicked"
    /\ UNCHANGED <<elf_path, fs, input, header, program_headers, section_headers,
                   data_off, cur_idx, idx, out>>

\* for section in section_headers { file.iowrite_with(section, ctx)?; },
\* file.sync_all(), and the RomFs built around new_path is returned.
WriteSectionHeaders ==
    /\ pc = "data"
    /\ UNCHANGED mvars
    /\ idx > Len(section_headers)
    /\ LET hs == HeadersToWrite(section_headers) IN
       out' = out \o [i \in 1..Len(hs) |-> ShdrWrite(input.is_64, hs[i])]
    /\ pc' = "done"
    /\ UNCHANGED <<elf_path, fs, input, header, program_headers, section_headers,
                   data_off, cur_idx, idx>>

NextSplit ==
    \/ Start
    \/ Classify
    \/ WriteHeaders
    \/ SkipSection
    \/ WriteSection
    \/ SlicePanic
    \/ WriteSectionHeaders

\* Every image, under the usual input path.
InitSplit == \E img \in Images : InitSplitWith([stem |-> "app", ext |-> "elf"], img)

SpecSplit == InitSplit /\ [][NextSplit]_vars

\* Every input path, each with an image of at most one section.
InitPath ==
    \E p \in Paths :
        \E img \in {i \in Images : Len(i.section_headers) <= 1} :
            InitSplitWith(p, img)

SpecPath == InitPath /\ [][NextSplit]_vars

\* ---------------------------------------------------------------------
\* What the splitter's claims read off a finished run
\* ---------------------------------------------------------------------
RECURSIVE SumSeq(_)
SumSeq(s) == IF s = <<>> THEN 0 ELSE Head(s) + SumSeq(Tail(s))

OutEhdr  == out[1].val
OutPhdrs == WritesOfKind(out, "phdr")
OutShdrs == WritesOfKind(out, "shdr")
OutDatas == WritesOfKind(out, "data")

\* Index of the first write of a kind, or one past the last write.
FirstOfKind(ws, kind) ==
    IF \E k \in 1..Len(ws) : ws[k].kind = kind
    THEN CHOOSE k \in 1..Len(ws) :
             /\ ws[k].kind = kind
             /\ \A j \in 1..(k - 1) : ws[j].kind # kind
    ELSE Len(ws) + 1

\* The byte of the output file at position p (0-based): the payload byte of
\* the data write covering p, or the kind of the header write covering p.
OutByte(p) ==
    LET k == CHOOSE k \in 1..Len(out) :
                 PosOfWrite(out, k) <= p /\ p < PosOfWrite(out, k) + out[k].size
    IN IF out[k].kind = "data" THEN out[k].val[p - PosOfWrite(out, k) + 1]
       ELSE out[k].kind

NSec == Len(input.section_headers)

\* Sizes of the sections that still carry payload after classification.
KeptSizes ==
    [i \in 1..NSec |->
        IF section_headers[i].sh_type # SHT_NOBITS
        THEN input.section_headers[i].sh_size ELSE 0]

\* Sections whose type the splitter changed.
Demoted ==
    {i \in 1..NSec : /\ input.section_headers[i].sh_type # SHT_NOBITS
                     /\ section_headers[i].sh_type = SHT_NOBITS}

\* C1: a finished run wrote as many program headers as the input has, each
\* equal to the input's field for field, and as many section headers as the
\* input has, header i being input section i (same name and size fields);
\* the counts in the ELF header are the input's.
C1_HeadersPreserved ==
    pc = "done" =>
        /\ Len(OutPhdrs) = Len(input.program_headers)
        /\ \A i \in 1..Len(OutPhdrs) : OutPhdrs[i].val = input.program_headers[i]
        /\ Len(OutShdrs) = NSec
        /\ \A i \in 1..Len(OutShdrs) :
               /\ i <= NSec
               /\ OutShdrs[i].val.sh_name = input.section_headers[i].sh_name
               /\ OutShdrs[i].val.sh_size = input.section_headers[i].sh_size
        /\ OutEhdr.e_phnum = Len(input.program_headers)
        /\ OutEhdr.e_shnum = NSec

\* A finished run over an image with a program header, a demoted section
\* followed by a kept one of another name.
C1_Witness ==
    /\ pc = "done"
    /\ Len(input.program_headers) >= 1
    /\ NSec >= 2
    /\ 1 \in Demoted
    /\ section_headers[2].sh_type # SHT_NOBITS
    /\ input.section_headers[1].sh_name # input.section_headers[2].sh_name

\* The classification the specification states for an input section: kept
\* when it has no payload, is a symbol or string table, or carries a name
\* that starts with ".debug" or is ".comment".
StatedKeep(sec) ==
    \/ sec.sh_type = SHT_NOBITS
    \/ sec.sh_type \in {SHT_SYMTAB, SHT_STRTAB}
    \/ /\ StrtabGet(sec.sh_name).tag = "SomeOk"
       /\ \/ StartsWith(StrtabGet(sec.sh_name).s, <<".", "d", "e", "b", "u", "g">>)
          \/ StrtabGet(sec.sh_name).s = <<".", "c", "o", "m", "m", "e", "n", "t">>

\* C2: once classified, a section has its input type if and only if the
\* input type is SHT_NOBITS, SHT_SYMTAB or SHT_STRTAB, or its name starts with
\* ".debug" or equals ".comment"; every other section, one whose name does
\* not resolve included, has type SHT_NOBITS.
C2_KeepIffStated ==
    pc \in {"header", "data", "done"} =>
        \A i \in 1..NSec :
            IF StatedKeep(input.section_headers[i])
            THEN section_headers[i].sh_type = input.section_headers[i].sh_type
            ELSE section_headers[i].sh_type = SHT_NOBITS

\* C3: the e_phoff written in the output header is the file position at which
\* the program-header table is written, right after the header.
C3_PhoffIsTablePosition ==
    pc \in {"data", "done"} => OutEhdr.e_phoff = PosOfWrite(out, 2)

\* C4: the e_shoff written in the output header is header size + program
\* header count x entry size + the sizes of the sections that carry payload
\* after classification, and that many bytes precede the section-header
\* table in the output file.
C4_ShoffIsTablePosition ==
    pc = "done" =>
        /\ OutEhdr.e_shoff =
               EhdrSize(input.is_64)
               + Len(input.program_headers) * PhdrSize(input.is_64)
               + SumSeq(KeptSizes)
        /\ OutEhdr.e_shoff = PosOfWrite(out, FirstOfKind(out, "shdr"))

\* A finished run with a program header, a demoted section that has bytes
\* in the input and a kept section with payload.
C4_Witness ==
    /\ pc = "done"
    /\ Len(input.program_headers) >= 1
    /\ \E i \in Demoted : input.section_headers[i].sh_size > 0
    /\ \E i \in 1..NSec : KeptSizes[i] > 0

\* C5: for every section that carries payload in the output, the output
\* bytes at [output sh_offset, + sh_size) are the input bytes at
\* [input sh_offset, + sh_size).
C5_PayloadRoundTrip ==
    pc = "done" =>
        \A i \in 1..NSec :
            section_headers[i].sh_type # SHT_NOBITS =>
                \A j \in 0..(input.section_headers[i].sh_size - 1) :
                    OutByte(OutShdrs[i].val.sh_offset + j)
                        = input.buffer[input.section_headers[i].sh_offset + j + 1]

\* A finished run that copied two payloads taken from different input
\* offsets, the second of more than one byte.
C5_Witness ==
    /\ pc = "done"
    /\ NSec >= 2
    /\ section_headers[1].sh_type # SHT_NOBITS
    /\ section_headers[2].sh_type # SHT_NOBITS
    /\ input.section_headers[1].sh_size >= 1
    /\ input.section_headers[2].sh_size >= 1
    /\ input.section_headers[1].sh_size + input.section_headers[2].sh_size >= 3
    /\ input.section_headers[1].sh_offset # input.section_headers[2].sh_offset

\* C6: every section the splitter demotes is written with type SHT_NOBITS
\* and the input's sh_size, and adds no byte to the file: the output holds
\* one payload per section that carries payload after classification, and
\* its size is header + program-header table + those payloads +
\* section-header table.
C6_DemotedContributeNothing ==
    pc = "done" =>
        /\ \A i \in Demoted :
               /\ OutShdrs[i].val.sh_type = SHT_NOBITS
               /\ OutShdrs[i].val.sh_size = input.section_headers[i].sh_size
        /\ Len(OutDatas) =
               Cardinality({i \in 1..NSec : section_headers[i].sh_type # SHT_NOBITS})
        /\ WrittenBytes(out) =
               EhdrSize(input.is_64)
               + Len(input.program_headers) * PhdrSize(input.is_64)
               + SumSeq(KeptSizes)
               + NSec * ShdrSize(input.is_64)

\* A finished run that demoted a section with bytes in the input next to a
\* kept section with payload.
C6_Witness ==
    /\ pc = "done"
    /\ \E i \in Demoted : input.section_headers[i].sh_size > 0
    /\ \E i \in 1..NSec : KeptSizes[i] > 0
    /\ NSec >= 2

\* Files present after the run that were not there before it.
NewFiles == {q \in Paths : fs[q] # "absent" /\ q # elf_path}

\* C7: a finished run has created exactly one new file, the input path with
\* its extension replaced by "debug", and the input file holds what it held.
C7_OneNewFileInputUntouched ==
    pc = "done" =>
        /\ fs[elf_path] = "input"
        /\ NewFiles = {NewPath(elf_path)}

\* =====================================================================
\* main: the build-event loop and the two packaging pipelines
\* =====================================================================
MaxEvents == 2     \* build events of one run

\* ---------------------------------------------------------------------
\* serde_json values and Value::pointer
\* ---------------------------------------------------------------------
Null   == [t |-> "null"]
Str(s) == [t |-> "str", s |-> s]
Obj(f) == [t |-> "obj", f |-> f]

None    == [some |-> FALSE, v |-> Null]
Some(v) == [some |-> TRUE, v |-> v]

\* A pointer string is the sequence of its pieces: "/" and the texts between
\* the slashes.  format!("linkle/{}", name) is <<"linkle", "/", name>>.
RECURSIVE PointerTokens(_)
PointerTokens(ptr) ==      \* pointer.split('/').skip(1), for a pointer that starts with '/'
    IF ptr = <<>> THEN <<>>
    ELSE IF Len(ptr) >= 2 /\ ptr[2] # "/"
         THEN <<ptr[2]>> \o PointerTokens(SubSeq(ptr, 3, Len(ptr)))
         ELSE <<"">> \o PointerTokens(Tail(ptr))

RECURSIVE Walk(_, _)
Walk(v, tokens) ==
    IF tokens = <<>> THEN Some(v)
    ELSE IF v.t = "obj" /\ Head(tokens) \in DOMAIN v.f
         THEN Walk(v.f[Head(tokens)], Tail(tokens))
         ELSE None

\* Value::pointer: the value itself for the empty pointer, None for a pointer
\* that does not start with '/', otherwise the value reached token by token.
Pointer(v, ptr) ==
    IF ptr = <<>> THEN Some(v)
    ELSE IF Head(ptr) # "/" THEN None
    ELSE Walk(v, PointerTokens(ptr))

\* .cloned().unwrap_or(serde_json::Value::Null)
UnwrapOrNull(o) == IF o.some THEN o.v ELSE Null

\* ---------------------------------------------------------------------
\* Configuration structs.  "" stands for String::default() and for None.
\* ---------------------------------------------------------------------
StrField(v, k) == v.t = "obj" /\ k \in DOMAIN v.f /\ v.f[k].t = "str"
OptField(v, k) == IF k \in DOMAIN v.f THEN v.f[k].s ELSE ""
OptOk(v, k)    == k \in DOMAIN v.f => v.f[k].t = "str"
NacpOk(v)      == "nacp" \in DOMAIN v.f => v.f["nacp"].t = "obj"

\* serde_json::from_value::<NspMetadata>(v).unwrap_or_default()
FromValueNsp(v) ==
    IF StrField(v, "npdm") THEN [NoConfig EXCEPT !.npdm = v.f["npdm"].s]
    ELSE NoConfig

\* Mutant of FromValueNro: the asset directory is not read.
FromValueNro_NoRomfs(v) ==
    IF v.t = "obj" /\ OptOk(v, "romfs") /\ OptOk(v, "icon") /\ NacpOk(v)
    THEN [NoConfig EXCEPT !.icon  = OptField(v, "icon"),
                          !.nacp  = IF "nacp" \in DOMAIN v.f THEN "nacp" ELSE ""]
    ELSE NoConfig

\* serde_json::from_value::<NroMetadata>(v).unwrap_or_default()
FromValueNro(v) ==
    IF v.t = "obj" /\ OptOk(v, "romfs") /\ OptOk(v, "icon") /\ NacpOk(v)
    THEN [NoConfig EXCEPT !.romfs = OptField(v, "romfs"),
                          !.icon  = OptField(v, "icon"),
                          !.nacp  = IF "nacp" \in DOMAIN v.f THEN "nacp" ELSE ""]
    ELSE NoConfig

\* serde_json::from_value::<PackageMetadata>(v).unwrap_or_default() of nsp.rs
FromValuePackage(v) ==
    IF StrField(v, "npdm") /\ StrField(v, "target")
    THEN [NoConfig EXCEPT !.npdm = v.f["npdm"].s]
    ELSE NoConfig

\* The pointers the two binaries look the configuration up with.
NspPointer     == <<"/", "sprinkle", "/", "nsp">>
NroPointer     == <<"/", "sprinkle", "/", "nro">>
LinklePointer(target_name) == <<"linkle", "/", target_name>>

\* target_metadata of main.rs, by format
ResolveMain(fmt, metadata) ==
    IF fmt = "nsp" THEN FromValueNsp(UnwrapOrNull(Pointer(metadata, NspPointer)))
    ELSE FromValueNro(UnwrapOrNull(Pointer(metadata, NroPointer)))

\* target_metadata of nsp.rs, keyed by the artifact's target name
ResolveBinaryScoped(target_name, metadata) ==
    FromValuePackage(UnwrapOrNull(Pointer(metadata, LinklePointer(target_name))))

\* ---------------------------------------------------------------------
\* Packages, build events, files
\* ---------------------------------------------------------------------
\* `metadata` of a package that configures both formats and two binaries.
FullMeta ==
    Obj([sprinkle |->
            Obj([nsp |-> Obj([npdm |-> Str("npdm.json")]),
                 nro |-> Obj([romfs |-> Str("assets"), icon |-> Str("icon.jpg"),
                              nacp |-> Obj([name |-> Str("app")])])]),
         linkle |->
            Obj([a |-> Obj([target |-> Str("t"), npdm |-> Str("a.json")]),
                 b |-> Obj([target |-> Str("t"), npdm |-> Str("b.json")])])])

\* The same package with no loader-binary configuration.
BareMeta ==
    Obj([sprinkle |->
            Obj([nsp |-> Obj([npdm |-> Str("npdm.json")])]),
         linkle |->
            Obj([a |-> Obj([target |-> Str("t"), npdm |-> Str("a.json")]),
                 b |-> Obj([target |-> Str("t"), npdm |-> Str("b.json")])])])

\* metadata.packages: p1 is configured, p2 carries no configuration at all.
PackageSets ==
    {[p1 |-> m, p2 |-> Null] : m \in {FullMeta, BareMeta}}

\* metadata.packages.iter().find(|v| v.id == artifact.package_id)
FindPackage(pkgs, id) == IF id \in DOMAIN pkgs THEN Some(pkgs[id]) ELSE None

Artifact(id, kind, name) ==
    [type |-> "artifact", package_id |-> id, kind |-> kind, name |-> name,
     file |-> name, rendered |-> ""]
Diagnostic(rendered) ==
    [type |-> "message", package_id |-> "", kind |-> {}, name |-> "",
     file |-> "", rendered |-> rendered]
OtherEvent ==
    [type |-> "other", package_id |-> "", kind |-> {}, name |-> "",
     file |-> "", rendered |-> ""]
Malformed ==
    [type |-> "err", package_id |-> "", kind |-> {}, name |-> "",
     file |-> "", rendered |-> ""]

\* What the toolchain can emit: artifacts of the two packages and of a
\* dependency that is no workspace package, a library artifact, rendered and
\* unrendered diagnostics, another message, a record that does not parse.
EventSet ==
    {Artifact("p1", {"bin"}, "a"), Artifact("p1", {"bin"}, "b"),
     Artifact("p2", {"cdylib"}, "c"), Artifact("dep", {"bin"}, "d"),
     Artifact("p1", {"lib"}, "a"),
     Diagnostic("warning"), Diagnostic(""), OtherEvent, Malformed}

\* Mutant of Qualifies: every artifact kind is packaged.
Qualifies_AnyKind(e) == e.kind # {}

\* artifact.target.kind.contains("bin") || ...contains("cdylib")
Qualifies(e) == "bin" \in e.kind \/ "cdylib" \in e.kind

\* A file: which encoder wrote it, from what, and whether the write finished.
NoFile == [by |-> "none", of |-> <<>>, whole |-> FALSE]
File(by, of, whole) == [by |-> by, of |-> of, whole |-> whole]

StagingNames == <<"main", "main.npdm", "stale">>
NoFiles      == [n \in {"main", "main.npdm", "stale"} |-> NoFile]
NoDir        == [exists |-> FALSE, files |-> NoFiles]
EmptyDir     == [exists |-> TRUE, files |-> NoFiles]

\* A staging directory left by an earlier run.
StaleDir ==
    [exists |-> TRUE,
     files |-> [NoFiles EXCEPT !["stale"] = File("old", <<"old">>, TRUE),
                               !["main"] = File("nso", <<"old">>, TRUE)]]

Stems     == {"a", "b", "c", "d"}
DiskNames == Stems \X {"nsp", "nro"}
EmptyDisk == [n \in DiskNames |-> NoFile]

\* Mutant of ContainerPath: every container is written to the same name.
ContainerPath_Fixed(file, ext) == <<"a", ext>>

\* artifact.filenames[0] with set_extension(ext): the artifact's stem with the
\* container's extension, in the artifact's directory.
ContainerPath(file, ext) == <<file, ext>>

\* A target directory that holds containers of an earlier run: a complete
\* package and a loader binary whose write was cut short.
StaleDisk ==
    [EmptyDisk EXCEPT ![<<"a", "nsp">>] = File("pfs0", <<"old">>, TRUE),
                      ![<<"a", "nro">>] = File("nro", <<"old">>, FALSE)]

\* What an earlier run can have left behind: nothing, or a staging directory
\* and containers.
Leftovers == {[dir |-> NoDir, disk |-> EmptyDisk], [dir |-> StaleDir, disk |-> StaleDisk]}

\* Mutant of OpenTruncate: the file is opened without truncation and keeps
\* what it held.
OpenTruncate_Keep(old, new) ==
    IF old.by = "none" THEN new ELSE [new EXCEPT !.of = old.of \o new.of]

\* File::create, and OpenOptions with write + create + truncate: the file
\* holds only what is written to it after the open.
OpenTruncate(old, new) == new

\* Mutant of StagingWrite: a write that does not finish empties the staging
\* directory.
StagingWrite_Rollback(dir, name, f) ==
    IF f.whole THEN [dir EXCEPT !.files[name] = OpenTruncate(dir.files[name], f)]
    ELSE [dir EXCEPT !.files = NoFiles]

\* A file of the staging directory is opened and written: exefs_dir.join(name).
StagingWrite(dir, name, f) ==
    [dir EXCEPT !.files[name] = OpenTruncate(dir.files[name], f)]

\* Pfs0::from_directory: the files found in the directory, by name.
RECURSIVE PackFrom(_, _)
PackFrom(files, names) ==
    IF names = <<>> THEN <<>>
    ELSE LET n == Head(names) IN
         (IF files[n].by = "none" THEN <<>>
          ELSE <<n, files[n].by>> \o files[n].of)
         \o PackFrom(files, Tail(names))

Pack(files) == PackFrom(files, StagingNames)

\* The descriptor source path: root.join(npdm) in main.rs, Path::new(&npdm)
\* in nsp.rs.
NpdmPath(which, npdm) ==
    [base |-> IF which = "main" THEN "root" ELSE "cwd", name |-> npdm]

\* NpdmJson::from_file can only read a path that names a file: with an empty
\* name the path is the directory itself (main.rs) or the empty path (nsp.rs).
NamesAFile(path) == path.name # ""

\* ---------------------------------------------------------------------
\* main
\* ---------------------------------------------------------------------
Formats == {"", "nsp", "nro", "elf"}     \* argv1: missing, the two formats, another word

InitMainWith(which, arg, pkgs, evs, left) ==
    /\ entry = which
    /\ argv1 = arg
    /\ packages = pkgs
    /\ stream = evs
    /\ seen = <<>>
    /\ mpc = "start"
    /\ spawned = <<>>
    /\ artifact = NoArtifact
    /\ target_metadata = NoConfig
    /\ exefs = left.dir
    /\ disk = left.disk
    /\ romfs = ""
    /\ effects = <<>>
    /\ printed = <<>>
    /\ failure = NoFailure
    \* the splitter is not running
    /\ elf_path = [stem |-> "app", ext |-> "elf"]
    /\ fs = [q \in Paths |-> "absent"]
    /\ input = [is_64 |-> TRUE, program_headers |-> <<>>,
                section_headers |-> <<>>, buffer |-> <<>>]
    /\ header = NoHeader
    /\ program_headers = <<>>
    /\ section_headers = <<>>
    /\ data_off = 0
    /\ cur_idx = 0
    /\ idx = 0
    /\ out = <<>>
    /\ pc = "idle"

\* Mutant of StepAfter: the executable container is not written.
StepAfter_NoExecutable(at) ==
    CASE at = "remove"     -> "create"
      [] at = "create"     -> "load_npdm"
      [] at = "load_npdm"  -> "write_npdm"
      [] at = "write_npdm" -> "pack"
      [] at = "write_nso"  -> "pack"
      [] at = "pack"       -> "report"
      [] at = "romfs"      -> "write_nro"
      [] at = "write_nro"  -> "report"
      [] at = "report"     -> "loop"

\* Mutant of StepAfter: the next event is read as soon as the container is
\* written, before the report.
StepAfter_ReadBeforeReport(at) ==
    CASE at = "remove"     -> "create"
      [] at = "create"     -> "load_npdm"
      [] at = "load_npdm"  -> "write_npdm"
      [] at = "write_npdm" -> "write_nso"
      [] at = "write_nso"  -> "pack"
      [] at = "pack"       -> "loop"
      [] at = "romfs"      -> "write_nro"
      [] at = "write_nro"  -> "loop"
      [] at = "report"     -> "loop"

\* The statement that follows a pipeline step that succeeded: the steps of a
\* match arm run in program order, and the end of the arm is the end of the
\* loop body.
StepAfter(at) ==
    CASE at = "remove"     -> "create"
      [] at = "create"     -> "load_npdm"
      [] at = "load_npdm"  -> "write_npdm"
      [] at = "write_npdm" -> "write_nso"
      [] at = "write_nso"  -> "pack"
      [] at = "pack"       -> "report"
      [] at = "romfs"      -> "write_nro"
      [] at = "write_nro"  -> "report"
      [] at = "report"     -> "loop"

\* Mutant of Forwarded: an unrendered diagnostic is dropped.
Forwarded_RenderedOnly(e) == IF e.rendered # "" THEN <<e.rendered>> ELSE <<>>

\* The line printed for a compiler message: its rendered text, or its debug
\* form when it has none.
Forwarded(e) == IF e.rendered # "" THEN <<e.rendered>> ELSE <<"{:?}">>

\* Mutant of Panic: the error is noted and the loop goes on.
Panic_Continue(at, env) ==
    /\ mpc' = "loop"
    /\ failure' = [at |-> at, env |-> env]

\* unwrap() or panic!() stops main at `at`; env says the environment (an
\* encoder, the file system, a subprocess) failed rather than main's own input.
Panic(at, env) ==
    /\ mpc' = "panicked"
    /\ failure' = [at |-> at, env |-> env]

\* cargo_metadata::MetadataCommand::new().exec().unwrap(): runs `cargo metadata`.
MetadataExec ==
    /\ mpc = "start"
    /\ spawned' = Append(spawned, "cargo metadata")
    /\ \/ /\ mpc' = IF entry = "main" THEN "args" ELSE "spawn"
          /\ UNCHANGED failure
       \/ Panic("metadata", TRUE)
    /\ UNCHANGED <<svars, entry, argv1, packages, stream, seen, artifact,
                   target_metadata, exefs, disk, romfs, effects, printed>>

\* let fmt = match env::args().nth(1) { ... }
ParseFormat ==
    /\ mpc = "args"
    /\ IF argv1 = "nsp"
       THEN /\ printed' = Append(printed, <<"Building NSP sysmodule...">>)
            /\ mpc' = "spawn"
            /\ UNCHANGED failure
       ELSE IF argv1 = "nro"
       THEN /\ printed' = Append(printed, <<"Building NRO binary...">>)
            /\ mpc' = "spawn"
            /\ UNCHANGED failure
       ELSE /\ Panic("usage", FALSE)
            /\ UNCHANGED printed
    /\ UNCHANGED <<svars, entry, argv1, packages, stream, seen, spawned, artifact,
                   target_metadata, exefs, disk, romfs, effects>>

\* Command::new("xargo") ... .spawn().unwrap()
SpawnXargo ==
    /\ mpc = "spawn"
    /\ \/ /\ spawned' = Append(spawned, "xargo")
          /\ mpc' = "loop"
          /\ UNCHANGED failure
       \/ /\ Panic("spawn", TRUE)
          /\ UNCHANGED spawned
    /\ UNCHANGED <<svars, entry, argv1, packages, stream, seen, artifact,
                   target_metadata, exefs, disk, romfs, effects, printed>>

\* One turn of `for message in iter`, up to the configuration lookup.
ReadEvent ==
    /\ mpc = "loop"
    /\ stream # <<>>
    /\ stream' = Tail(stream)
    /\ seen' = Append(seen, Head(stream))
    /\ LET e == Head(stream) IN
       IF e.type = "artifact" /\ Qualifies(e)
       THEN IF FindPackage(packages, e.package_id).some
            THEN /\ artifact' = [package_id |-> e.package_id, kind |-> e.kind,
                                 name |-> e.name, file |-> e.file]
                 /\ mpc' = "resolve"
                 /\ UNCHANGED <<printed, failure>>
            ELSE UNCHANGED <<artifact, mpc, printed, failure>>      \* None => continue
       ELSE IF e.type = "artifact" \/ e.type = "other"
       THEN UNCHANGED <<artifact, mpc, printed, failure>>
       ELSE IF e.type = "message"
       THEN /\ printed' = Append(printed, Forwarded(e))
            /\ UNCHANGED <<artifact, mpc, failure>>
       ELSE /\ Panic("event", FALSE)                                \* Err(err)
            /\ UNCHANGED <<artifact, printed>>
    /\ UNCHANGED <<svars, entry, argv1, packages, spawned, target_metadata,
                   exefs, disk, romfs, effects>>

\* The event iterator ends: main returns.
EndOfStream ==
    /\ mpc = "loop"
    /\ stream = <<>>
    /\ mpc' = "exited"
    /\ UNCHANGED <<svars, entry, argv1, packages, stream, seen, spawned, artifact,
                   target_metadata, exefs, disk, romfs, effects, printed, failure>>

\* main.rs: target_metadata for the selected format.
ResolveConfig ==
    /\ mpc = "resolve"
    /\ entry = "main"
    /\ target_metadata' = ResolveMain(argv1, packages[artifact.package_id])
    /\ mpc' = IF argv1 = "nsp" THEN "remove" ELSE "romfs"
    /\ UNCHANGED <<svars, entry, argv1, packages, stream, seen, spawned, artifact,
                   exefs, disk, romfs, effects, printed, failure>>

\* nsp.rs: target_metadata keyed by the artifact's target name.
ResolveTargetConfig ==
    /\ mpc = "resolve"
    /\ entry = "nsp"
    /\ target_metadata' =
           ResolveBinaryScoped(artifact.name, packages[artifact.package_id])
    /\ mpc' = "remove"
    /\ UNCHANGED <<svars, entry, argv1, packages, stream, seen, spawned, artifact,
                   exefs, disk, romfs, effects, printed, failure>>

\* let _ = std::fs::remove_dir_all(exefs_dir): the result is dropped, so a
\* directory that could not be removed is still there afterwards, with its
\* files or with its files removed and the directory itself left.
RemoveStaging ==
    /\ mpc = "remove"
    /\ effects' = Append(effects, <<"remove_dir_all">>)
    /\ \/ exefs' = NoDir
       \/ exefs.exists /\ exefs' = exefs
       \/ exefs.exists /\ exefs' = EmptyDir
    /\ mpc' = StepAfter("remove")
    /\ UNCHANGED <<svars, entry, argv1, packages, stream, seen, spawned, artifact,
                   target_metadata, disk, romfs, printed, failure>>

\* Mutant of CreateDir: an existing directory is accepted as it is.
CreateDir_All(dir) ==
    [ok |-> TRUE, dir |-> IF dir.exists THEN dir ELSE EmptyDir]

\* std::fs::create_dir: makes a new, empty directory and fails on a path that
\* exists.
CreateDir(dir) ==
    IF dir.exists THEN [ok |-> FALSE, dir |-> dir]
    ELSE [ok |-> TRUE, dir |-> EmptyDir]

\* std::fs::create_dir(exefs_dir).unwrap()
CreateStaging ==
    /\ mpc = "create"
    /\ \/ /\ CreateDir(exefs).ok
          /\ exefs' = CreateDir(exefs).dir
          /\ effects' = Append(effects, <<"create_dir">>)
          /\ mpc' = StepAfter("create")
          /\ UNCHANGED failure
       \/ /\ Panic("create_dir", TRUE)
          /\ UNCHANGED <<exefs, effects>>
    /\ UNCHANGED <<svars, entry, argv1, packages, stream, seen, spawned, artifact,
                   target_metadata, disk, romfs, printed>>

\* NpdmJson::from_file(path).unwrap()
LoadNpdm ==
    /\ mpc = "load_npdm"
    /\ LET path == NpdmPath(entry, target_metadata.npdm) IN
       IF ~NamesAFile(path)
       THEN /\ Panic("load_npdm", FALSE)
            /\ UNCHANGED effects
       ELSE \/ /\ effects' = Append(effects, <<"NpdmJson::from_file", path.name>>)
               /\ mpc' = StepAfter("load_npdm")
               /\ UNCHANGED failure
            \/ /\ Panic("load_npdm", TRUE)
               /\ UNCHANGED effects
    /\ UNCHANGED <<svars, entry, argv1, packages, stream, seen, spawned, artifact,
                   target_metadata, exefs, disk, romfs, printed>>

\* open(main_npdm) with create + truncate, then npdm.into_npdm(&mut out_file, ..)
WriteNpdm ==
    /\ mpc = "write_npdm"
    /\ LET src == <<NpdmPath(entry, target_metadata.npdm).base, target_metadata.npdm>> IN
       \/ /\ Panic("open_npdm", TRUE)
          /\ UNCHANGED <<exefs, effects>>
       \/ /\ exefs' = StagingWrite(exefs, "main.npdm", File("npdm", src, FALSE))
          /\ effects' = Append(effects, <<"open", "main.npdm">>)
          /\ Panic("into_npdm", TRUE)
       \/ /\ exefs' = StagingWrite(exefs, "main.npdm", File("npdm", src, TRUE))
          /\ effects' = effects \o << <<"open", "main.npdm">>, <<"into_npdm">> >>
          /\ mpc' = StepAfter("write_npdm")
          /\ UNCHANGED failure
    /\ UNCHANGED <<svars, entry, argv1, packages, stream, seen, spawned, artifact,
                   target_metadata, disk, romfs, printed>>

\* NxoFile::from_elf(..).unwrap().write_nso(&mut File::create(main_exe).unwrap()).unwrap()
WriteNso ==
    /\ mpc = "write_nso"
    /\ \/ /\ Panic("from_elf", TRUE)
          /\ UNCHANGED <<exefs, effects>>
       \/ /\ Panic("create_main", TRUE)
          /\ effects' = Append(effects, <<"from_elf", artifact.file>>)
          /\ UNCHANGED exefs
       \/ /\ exefs' = StagingWrite(exefs, "main", File("nso", <<artifact.file>>, FALSE))
          /\ effects' = effects \o << <<"from_elf", artifact.file>>, <<"create", "main">> >>
          /\ Panic("write_nso", TRUE)
       \/ /\ exefs' = StagingWrite(exefs, "main", File("nso", <<artifact.file>>, TRUE))
          /\ effects' = effects \o << <<"from_elf", artifact.file>>, <<"create", "main">>,
                                      <<"write_nso">> >>
          /\ mpc' = StepAfter("write_nso")
          /\ UNCHANGED failure
    /\ UNCHANGED <<svars, entry, argv1, packages, stream, seen, spawned, artifact,
                   target_metadata, disk, romfs, printed>>

\* Pfs0::from_directory(exefs_dir).unwrap(), open(exefs_nsp) with create +
\* truncate, nsp.write_pfs0(..).unwrap()
PackNsp ==
    /\ mpc = "pack"
    /\ LET n == ContainerPath(artifact.file, "nsp") IN
       \/ /\ Panic("from_directory", TRUE)
          /\ UNCHANGED <<disk, effects>>
       \/ /\ Panic("open_nsp", TRUE)
          /\ effects' = Append(effects, <<"Pfs0::from_directory">>)
          /\ UNCHANGED disk
       \/ /\ disk' = [disk EXCEPT ![n] = OpenTruncate(disk[n], File("pfs0", Pack(exefs.files), FALSE))]
          /\ effects' = effects \o << <<"Pfs0::from_directory">>, <<"open", n[1], n[2]>> >>
          /\ Panic("write_pfs0", TRUE)
       \/ /\ disk' = [disk EXCEPT ![n] = OpenTruncate(disk[n], File("pfs0", Pack(exefs.files), TRUE))]
          /\ effects' = effects \o << <<"Pfs0::from_directory">>, <<"open", n[1], n[2]>>,
                                      <<"write_pfs0">> >>
          /\ mpc' = StepAfter("pack")
          /\ UNCHANGED failure
    /\ UNCHANGED <<svars, entry, argv1, packages, stream, seen, spawned, artifact,
                   target_metadata, exefs, romfs, printed>>

\* target_metadata.romfs.as_ref().map(|dir| RomFs::from_directory(..).unwrap())
BuildRomfs ==
    /\ mpc = "romfs"
    /\ IF target_metadata.romfs # ""
       THEN \/ /\ romfs' = target_metadata.romfs
               /\ effects' = Append(effects, <<"RomFs::from_directory",
                                               target_metadata.romfs>>)
               /\ mpc' = StepAfter("romfs")
               /\ UNCHANGED failure
            \/ /\ Panic("romfs", TRUE)
               /\ UNCHANGED <<romfs, effects>>
       ELSE /\ romfs' = ""
            /\ mpc' = StepAfter("romfs")
            /\ UNCHANGED <<effects, failure>>
    /\ UNCHANGED <<svars, entry, argv1, packages, stream, seen, spawned, artifact,
                   target_metadata, exefs, disk, printed>>

\* NxoFile::from_elf(..).unwrap().write_nro(&mut File::create(nro).unwrap(),
\*     romfs, icon, target_metadata.nacp).unwrap()
WriteNro ==
    /\ mpc = "write_nro"
    /\ LET n    == ContainerPath(artifact.file, "nro")
           args == <<artifact.file, romfs, target_metadata.icon, target_metadata.nacp>>
       IN
       \/ /\ Panic("from_elf", TRUE)
          /\ UNCHANGED <<disk, effects>>
       \/ /\ Panic("create_nro", TRUE)
          /\ effects' = Append(effects, <<"from_elf", artifact.file>>)
          /\ UNCHANGED disk
       \/ /\ disk' = [disk EXCEPT ![n] = OpenTruncate(disk[n], File("nro", args, FALSE))]
          /\ effects' = effects \o << <<"from_elf", artifact.file>>,
                                      <<"create", n[1], n[2]>> >>
          /\ Panic("write_nro", TRUE)
       \/ /\ disk' = [disk EXCEPT ![n] = OpenTruncate(disk[n], File("nro", args, TRUE))]
          /\ effects' = effects \o << <<"from_elf", artifact.file>>,
                                      <<"create", n[1], n[2]>>,
                                      <<"write_nro">> \o args >>
          /\ mpc' = StepAfter("write_nro")
          /\ UNCHANGED failure
    /\ UNCHANGED <<svars, entry, argv1, packages, stream, seen, spawned, artifact,
                   target_metadata, exefs, romfs, printed>>

\* println!("Built {}", ..): the artifact is done, the loop goes on.
Report ==
    /\ mpc = "report"
    /\ printed' = Append(printed, <<"Built", artifact.file,
                                    IF entry = "main" THEN argv1 ELSE "nsp">>)
    /\ artifact' = NoArtifact
    /\ target_metadata' = NoConfig
    /\ romfs' = ""
    /\ mpc' = StepAfter("report")
    /\ UNCHANGED <<svars, entry, argv1, packages, stream, seen, spawned, exefs, disk,
                   effects, failure>>

NextMain ==
    \/ MetadataExec
    \/ ParseFormat
    \/ SpawnXargo
    \/ ReadEvent
    \/ EndOfStream
    \/ ResolveConfig
    \/ RemoveStaging
    \/ CreateStaging
    \/ LoadNpdm
    \/ WriteNpdm
    \/ WriteNso
    \/ PackNsp
    \/ BuildRomfs
    \/ WriteNro
    \/ Report

\* main of nsp.rs.  Its lookup pointer has no leading '/', so the descriptor
\* path is always empty and LoadNpdm always stops the run: the steps that
\* follow it in nsp.rs (WriteNpdm, WriteNso, PackNsp, Report) are never
\* reached and are left out of this next-state relation.
NextNsp ==
    \/ MetadataExec
    \/ SpawnXargo
    \/ ReadEvent
    \/ EndOfStream
    \/ ResolveTargetConfig
    \/ RemoveStaging
    \/ CreateStaging
    \/ LoadNpdm

Streams == SeqsUpTo(EventSet, MaxEvents)

InitMain ==
    \E arg \in Formats, pkgs \in PackageSets, evs \in Streams, left \in Leftovers :
        InitMainWith("main", arg, pkgs, evs, left)

InitNsp ==
    \E pkgs \in PackageSets, evs \in Streams, left \in Leftovers :
        InitMainWith("nsp", "", pkgs, evs, left)

SpecMain == InitMain /\ [][NextMain]_vars
SpecNsp  == InitNsp /\ [][NextNsp]_vars

\* ---------------------------------------------------------------------
\* Claims about main
\* ---------------------------------------------------------------------
\* An artifact is in its pipeline (its configuration has been resolved).
InPipeline == artifact.package_id # "" /\ mpc # "resolve"

\* The package of the artifact carries nothing at main.rs' lookup path.
ConfigMissing ==
    ~Pointer(packages[artifact.package_id],
             IF argv1 = "nsp" THEN NspPointer ELSE NroPointer).some

\* C8: for an artifact whose package has no configuration at the lookup path,
\* the resolved configuration is the all-defaults one and the pipeline stops
\* only on a failure of its environment (an encoder, the file system), never
\* on the configuration; in the loader format the container is written with no
\* asset filesystem, icon or metadata record.
C8_MissingConfigNeverFails ==
    (entry = "main" /\ InPipeline /\ ConfigMissing) =>
        /\ target_metadata = NoConfig
        /\ mpc = "panicked" => failure.env
        /\ (argv1 = "nro" /\ mpc = "report") =>
               disk[<<artifact.file, "nro">>]
                   = File("nro", <<artifact.file, "", "", "">>, TRUE)

\* C9: under nsp.rs, once the configuration of an artifact of package p1 is
\* resolved it is the entry of the package metadata keyed by the artifact's
\* target name (a.json for target a, b.json for target b).
C9_ConfigKeyedByTargetName ==
    (entry = "nsp" /\ InPipeline /\ artifact.package_id = "p1") =>
        target_metadata.npdm
            = packages["p1"].f["linkle"].f[artifact.name].f["npdm"].s

\* C10: when the run stops on the usage error (format argument missing or
\* not one of the two formats), no subprocess has been spawned and nothing
\* has been written.
C10_UsageErrorBeforeAnySpawn ==
    (mpc = "panicked" /\ failure.at = "usage") =>
        /\ argv1 \notin {"nsp", "nro"}
        /\ spawned = <<>>
        /\ effects = <<>>

\* The last event read from the stream.
LastSeen == seen[Len(seen)]

\* The event names an executable or shared-library artifact of a known package.
Accepted(e) ==
    /\ e.type = "artifact"
    /\ "bin" \in e.kind \/ "cdylib" \in e.kind
    /\ e.package_id \in DOMAIN packages

\* C11: reading an event starts packaging only if the event is an artifact
\* whose kind contains "bin" or "cdylib" and whose package is known, and then
\* for that artifact; reading any other well-formed event (wrong kind, unknown
\* package, not an artifact) leaves the run unfailed, writes nothing to the
\* file system, and leaves the loop ready for the next event.
C11_OnlyAcceptedEnterPackaging ==
    [][(mpc = "loop" /\ stream # <<>>) =>
          LET e == Head(stream) IN
          /\ mpc' = "resolve" =>
                 /\ Accepted(e)
                 /\ artifact'.package_id = e.package_id
                 /\ artifact'.name = e.name
          /\ (~Accepted(e) /\ e.type # "err") =>
                 /\ mpc' = "loop"
                 /\ stream' = Tail(stream)
                 /\ failure' = NoFailure
                 /\ artifact' = NoArtifact
                 /\ <<exefs, disk, effects, spawned>>' = <<exefs, disk, effects, spawned>>
      ]_vars

\* A dependency's artifact and a library artifact have been read and skipped;
\* the loop is ready for a third event with nothing written.
C11_Witness ==
    /\ entry = "main"
    /\ mpc = "loop"
    /\ Len(seen) = 2
    /\ seen[1].package_id = "dep" /\ seen[1].kind = {"bin"}
    /\ seen[2].package_id = "p1" /\ seen[2].kind = {"lib"}
    /\ effects = <<>>
    /\ failure = NoFailure

AllButLast(q) == SubSeq(q, 1, Len(q) - 1)

\* What main prints for a sequence of events each handled to its end, in the
\* order of the events: the line of a diagnostic, the report of a packaged
\* artifact, nothing for any other event.
RECURSIVE LinesFor(_)
LinesFor(evs) ==
    IF evs = <<>> THEN <<>>
    ELSE LET e == Head(evs) IN
         (IF e.type = "message"
          THEN << IF e.rendered # "" THEN <<e.rendered>> ELSE <<"{:?}">> >>
          ELSE IF Accepted(e) THEN << <<"Built", e.file, argv1>> >>
          ELSE <<>>)
         \o LinesFor(Tail(evs))

\* The event loop has been entered.
InLoop == entry = "main" /\ Len(spawned) = 2

\* C12: the lines main has printed after its banner are those of the events
\* it has read, in the order the toolchain emitted them; while an artifact is
\* being packaged it is the last event read, and every event read before it
\* has been handled to its end (each earlier artifact is reported), so that no
\* two artifacts are ever in their pipelines at once.
C12_EventsInOrderOneAtATime ==
    InLoop =>
        IF artifact # NoArtifact
        THEN /\ seen # <<>>
             /\ Accepted(LastSeen)
             /\ artifact.name = LastSeen.name
             /\ artifact.package_id = LastSeen.package_id
             /\ Tail(printed) = LinesFor(AllButLast(seen))
        ELSE Tail(printed) = LinesFor(seen)

\* The second of two artifacts is about to be reported; the first one was
\* packaged and reported before the second event was read.
C12_Witness ==
    /\ InLoop
    /\ mpc = "report"
    /\ Len(seen) = 2
    /\ Accepted(seen[1]) /\ Accepted(seen[2])
    /\ seen[1].name # seen[2].name
    /\ Len(printed) = 2

\* The containers main has reported so far, as <<stem, extension>>.
Reported == {<<printed[i][2], printed[i][3]>> :
                i \in {j \in 1..Len(printed) : printed[j][1] = "Built"}}

\* C13: a failure (a record that does not parse, or a failed step of an
\* artifact's pipeline) puts main in its failed state, from which there is no
\* further step: no later event is read, no artifact packaged, no step run
\* again.  Reading a record that does not parse is such a failure.  In the
\* failed state every container reported for an earlier artifact is still on
\* disk, complete (the path the failing artifact itself writes is its own).
C13_FatalErrorAbsorbing ==
    /\ [](failure # NoFailure => mpc = "panicked")
    /\ [][/\ mpc # "panicked"
          /\ (mpc = "loop" /\ stream # <<>> /\ Head(stream).type = "err")
                 => mpc' = "panicked"
         ]_vars
    /\ [](mpc = "panicked" =>
             \A c \in Reported :
                 c[1] # artifact.file =>
                     disk[c].by # "none" /\ disk[c].whole)

\* The first artifact's pipeline has failed while its executable container
\* was being written; a second artifact's event is left unread in the stream.
C13_Witness ==
    /\ entry = "main"
    /\ mpc = "panicked"
    /\ failure.at = "write_nso"
    /\ Len(seen) = 1
    /\ stream # <<>>
    /\ Accepted(Head(stream))
    /\ exefs.files["main.npdm"].whole

\* The container the encoders produce for an artifact and a configuration,
\* given nothing else: the package of the descriptor and the executable, or
\* the loader binary with its optional parts.
ContainerFor(fmt, file, cfg) ==
    IF fmt = "nsp"
    THEN [by |-> "pfs0",
          of |-> <<"main", "nso", file, "main.npdm", "npdm", "root", cfg.npdm>>,
          whole |-> TRUE]
    ELSE [by |-> "nro", of |-> <<file, cfg.romfs, cfg.icon, cfg.nacp>>,
          whole |-> TRUE]

\* C14: the final container of a pipeline that ran to its end is determined
\* by the artifact and its configuration alone, whatever the staging
\* directory and the container path held before; so a second run on the same
\* artifact and configuration ends with the same bytes as the first.
C14_ContainerDependsOnInputsOnly ==
    (entry = "main" /\ mpc = "report") =>
        /\ target_metadata = ResolveMain(argv1, packages[artifact.package_id])
        /\ disk[<<artifact.file, argv1>>]
               = ContainerFor(argv1, artifact.file, target_metadata)

\* The same artifact has been packaged twice in one run: the second pipeline
\* found the first one's staging directory and container, and has just
\* written the container again.
C14_Witness ==
    /\ entry = "main"
    /\ mpc = "report"
    /\ Len(seen) = 2
    /\ seen[1] = seen[2]
    /\ <<artifact.file, argv1>> \in Reported

\* The asset directory the package metadata configures for the loader
\* format, "" when it configures none.
AssetDir(pkg) ==
    LET v == Pointer(pkg, NroPointer) IN
    IF v.some /\ v.v.t = "obj" /\ "romfs" \in DOMAIN v.v.f
    THEN v.v.f["romfs"].s
    ELSE ""

\* The asset directories of the artifacts among the events, in order.
RECURSIVE AssetDirsOf(_)
AssetDirsOf(evs) ==
    IF evs = <<>> THEN <<>>
    ELSE (IF Accepted(Head(evs)) /\ AssetDir(packages[Head(evs).package_id]) # ""
          THEN <<AssetDir(packages[Head(evs).package_id])>>
          ELSE <<>>)
         \o AssetDirsOf(Tail(evs))

\* The directories the asset-filesystem encoder has been called on, in order.
RECURSIVE RomfsCalls(_)
RomfsCalls(eff) ==
    IF eff = <<>> THEN <<>>
    ELSE (IF Head(eff)[1] = "RomFs::from_directory" THEN <<Head(eff)[2]>> ELSE <<>>)
         \o RomfsCalls(Tail(eff))

\* C15: in the loader pipeline the asset-filesystem encoder is called for an
\* artifact exactly when its package configures an asset directory, and on
\* that directory; the loader container is encoded with the filesystem built
\* from it, and with none when no directory is configured.
C15_AssetFsIffConfigured ==
    (InLoop /\ argv1 = "nro") =>
        /\ mpc \in {"write_nro", "report", "loop", "exited"} =>
               RomfsCalls(effects) = AssetDirsOf(seen)
        /\ mpc \in {"write_nro", "report"} =>
               romfs = AssetDir(packages[artifact.package_id])
        /\ mpc = "report" =>
               disk[<<artifact.file, "nro">>].of[2]
                   = AssetDir(packages[artifact.package_id])

\* Two loader binaries have been written: the first for a package with no
\* asset directory, with no call of the asset-filesystem encoder, the second
\* for a package that configures one.
C15_Witness ==
    /\ InLoop /\ argv1 = "nro"
    /\ mpc = "report"
    /\ Len(seen) = 2
    /\ seen[1].package_id = "p2"
    /\ disk[<<seen[1].file, "nro">>] = File("nro", <<seen[1].file, "", "", "">>, TRUE)
    /\ RomfsCalls(effects) = <<"assets">>
    /\ disk[<<artifact.file, "nro">>].of[2] = "assets"

\* C16: reading a diagnostic prints it (its rendered text, or its debug form
\* when it has none) at that moment and does nothing else: the run is not
\* failed, no pipeline is started, nothing is written, and the loop is ready
\* for the next event.  An artifact is in its pipeline only when the event
\* just read is that artifact's own.
C16_DiagnosticsOnlyForwarded ==
    /\ [][(mpc = "loop" /\ stream # <<>> /\ Head(stream).type = "message") =>
             /\ printed' = Append(printed,
                                  IF Head(stream).rendered # ""
                                  THEN <<Head(stream).rendered>>
                                  ELSE <<"{:?}">>)
             /\ mpc' = "loop"
             /\ stream' = Tail(stream)
             /\ failure' = NoFailure
             /\ artifact' = NoArtifact
             /\ <<exefs, disk, effects, spawned>>' = <<exefs, disk, effects, spawned>>
         ]_vars
    /\ [](artifact # NoArtifact =>
             /\ seen # <<>>
             /\ LastSeen.type = "artifact"
             /\ LastSeen.name = artifact.name
             /\ LastSeen.package_id = artifact.package_id)

\* A diagnostic was read and printed, then an artifact's event: the artifact
\* has been packaged and is about to be reported.
C16_Witness ==
    /\ InLoop
    /\ mpc = "report"
    /\ Len(seen) = 2
    /\ seen[1].type = "message" /\ seen[1].rendered = ""
    /\ printed[2] = <<"{:?}">>
    /\ failure = NoFailure

IsPrefix(p, q) == Len(p) <= Len(q) /\ p = SubSeq(q, 1, Len(p))

\* The file-system changes and encoder calls of the installable-package
\* pipeline for one artifact, in the order the steps are stated: reset of the
\* staging directory, descriptor to staging/main.npdm, executable container to
\* staging/main, package container to <stem>.nsp.
NspSteps(file, npdm) ==
    << <<"remove_dir_all">>, <<"create_dir">>,
       <<"NpdmJson::from_file", npdm>>, <<"open", "main.npdm">>, <<"into_npdm">>,
       <<"from_elf", file>>, <<"create", "main">>, <<"write_nso">>,
       <<"Pfs0::from_directory">>, <<"open", file, "nsp">>, <<"write_pfs0">> >>

\* The steps of the artifacts among the events, one artifact after the other.
RECURSIVE NspStepsOf(_)
NspStepsOf(evs) ==
    IF evs = <<>> THEN <<>>
    ELSE (IF Accepted(Head(evs))
          THEN NspSteps(Head(evs).file,
                        ResolveMain("nsp", packages[Head(evs).package_id]).npdm)
          ELSE <<>>)
         \o NspStepsOf(Tail(evs))

\* C17: in the installable-package format, what main has done to the file
\* system and asked of the encoders is always an initial part of the stated
\* step sequences of the artifacts read so far, so no step is skipped or
\* taken out of order and nothing is written for an artifact before its
\* reset; it is the whole of them when an artifact is about to be reported
\* and when the loop is ready for the next event, so a report is printed only
\* after its package container is written.
C17_NspStepsInOrder ==
    (InLoop /\ argv1 = "nsp") =>
        /\ IsPrefix(effects, NspStepsOf(seen))
        /\ mpc \in {"report", "loop", "exited"} => effects = NspStepsOf(seen)
        /\ mpc = "report" => <<artifact.file, "nsp">> = <<LastSeen.file, "nsp">>

\* An artifact has gone through every step of the pipeline and is about to
\* be reported.
C17_Witness ==
    /\ InLoop /\ argv1 = "nsp"
    /\ mpc = "report"
    /\ Len(seen) = 1
    /\ Len(effects) = 11
    /\ Len(printed) = 1

\* The steps of the installable-package pipeline that can fail, and the file
\* of the staging directory each of them writes ("" when it writes none).
NspFailingSteps == {"create", "load_npdm", "write_npdm", "write_nso", "pack"}
StagingTarget(at) ==
    IF at = "write_npdm" THEN "main.npdm" ELSE IF at = "write_nso" THEN "main" ELSE ""

\* A step of the installable-package pipeline fails.
NspStepFails == mpc \in NspFailingSteps /\ mpc' = "panicked"

\* C18 as stated: when a step of the installable-package pipeline fails, no
\* later step runs, nothing is reported, and the staging directory is exactly
\* what the steps before the failing one made of it.
C18_StagingExactlyAsEarlierSteps ==
    [][/\ mpc # "panicked"
       /\ NspStepFails => (printed' = printed /\ exefs' = exefs)
      ]_vars

\* C18, amended: when a step of the installable-package pipeline fails, no
\* later step runs, nothing is reported, the staging directory is still there
\* if it was, and every file in it other than the one the failing step was
\* writing is what the earlier steps made of it: the descriptor is complete
\* once its step is past, and nothing is removed or rolled back.  The file the
\* failing step was writing may be left behind unfinished.
C18_NoRollbackOnFailure ==
    /\ [][/\ mpc # "panicked"
          /\ NspStepFails =>
                 /\ printed' = printed
                 /\ exefs'.exists = exefs.exists
                 /\ \A n \in DOMAIN exefs.files :
                        n # StagingTarget(mpc) => exefs'.files[n] = exefs.files[n]
                 /\ \A n \in DOMAIN exefs.files :
                        exefs.files[n] # NoFile => exefs'.files[n] # NoFile
         ]_vars
    /\ []((entry = "main" /\ argv1 = "nsp" /\ mpc = "panicked"
              /\ failure.at \in {"from_elf", "create_main", "write_nso",
                                 "from_directory", "open_nsp", "write_pfs0"}) =>
             exefs.files["main.npdm"]
                 = File("npdm", <<"root", target_metadata.npdm>>, TRUE))
    /\ []((entry = "main" /\ argv1 = "nsp" /\ mpc = "panicked"
              /\ failure.at \in {"from_directory", "open_nsp", "write_pfs0"}) =>
             exefs.files["main"] = File("nso", <<artifact.file>>, TRUE))

\* The executable-container step has failed in the middle of its write: the
\* descriptor written by the step before it is complete in the staging
\* directory, beside the unfinished executable container.
C18_Witness ==
    /\ entry = "main"
    /\ mpc = "panicked"
    /\ failure.at = "write_nso"
    /\ exefs.exists
    /\ exefs.files["main.npdm"].whole
    /\ exefs.files["main"].by = "nso" /\ ~exefs.files["main"].whole

\* The names of the files in the staging directory.
StagingFiles == {n \in DOMAIN exefs.files : exefs.files[n] # NoFile}

\* C19: when the installable-package pipeline is at its pack step the staging
\* directory holds the two files main.npdm and main, both written in full for
\* the artifact being packaged, and no other file, whatever an earlier run or
\* an earlier artifact left in it; and when the staging directory is still
\* there after the removal, the pipeline fails at the creation.
C19_PackSeesExactlyTwoFiles ==
    /\ []((entry = "main" /\ mpc = "pack") =>
             /\ exefs.exists
             /\ StagingFiles = {"main.npdm", "main"}
             /\ exefs.files["main.npdm"]
                    = File("npdm", <<"root", target_metadata.npdm>>, TRUE)
             /\ exefs.files["main"] = File("nso", <<artifact.file>>, TRUE))
    /\ [][(mpc = "create" /\ exefs.exists) => mpc' = "panicked"]_vars

\* The second artifact of a run that started on the leftovers of an earlier
\* run is at its pack step: the staging directory was reset twice.
C19_Witness ==
    /\ entry = "main"
    /\ mpc = "pack"
    /\ Len(seen) = 2
    /\ Accepted(seen[1])
    /\ disk[<<"a", "nro">>] = StaleDisk[<<"a", "nro">>]
    /\ StagingFiles = {"main.npdm", "main"}

\* The sections whose payload the splitter wrote, and the index in `out` of
\* the write that holds the payload of section i.
WrittenSections == {i \in 1..NSec : section_headers[i].sh_type # SHT_NOBITS}
DataWriteOf(i) ==
    CHOOSE k \in 1..Len(out) :
        /\ out[k].kind = "data"
        /\ Cardinality({j \in 1..k : out[j].kind = "data"})
               = Cardinality({j \in WrittenSections : j <= i})

\* C20: in a finished run the payloads of the written sections lie one after
\* the other in section order, the first right after the program-header
\* table: the sh_offset written for such a section is header size +
\* program-header-table size + the sizes of the written sections before it,
\* it is the file position at which the payload of the section was written,
\* and the byte ranges of two written sections do not overlap.
C20_PayloadsContiguousInOrder ==
    pc = "done" =>
        /\ Len(OutDatas) = Cardinality(WrittenSections)
        /\ \A i \in WrittenSections :
               /\ OutShdrs[i].val.sh_offset =
                      EhdrSize(input.is_64)
                      + Len(input.program_headers) * PhdrSize(input.is_64)
                      + SumSeq(SubSeq(KeptSizes, 1, i - 1))
               /\ OutShdrs[i].val.sh_offset = PosOfWrite(out, DataWriteOf(i))
               /\ out[DataWriteOf(i)].size = OutShdrs[i].val.sh_size
        /\ \A i, j \in WrittenSections :
               i < j => OutShdrs[i].val.sh_offset + OutShdrs[i].val.sh_size
                            <= OutShdrs[j].val.sh_offset

\* A finished run on a 32-bit image with a program header and two written
\* sections, the second of which was stored before the first in the input.
C20_Witness ==
    /\ pc = "done"
    /\ ~input.is_64
    /\ Len(input.program_headers) >= 1
    /\ NSec = 2
    /\ WrittenSections = {1, 2}
    /\ input.section_headers[1].sh_size >= 1
    /\ input.section_headers[2].sh_size >= 1
    /\ input.section_headers[2].sh_offset < input.section_headers[1].sh_offset

\* The configuration main resolves for the artifact of an event.
NspConfigOf(e) == ResolveMain("nsp", packages[e.package_id])

\* Event i of those read is an artifact whose pipeline has run to its end.
Packaged(i) ==
    /\ Accepted(seen[i])
    /\ i < Len(seen) \/ mpc \in {"report", "loop", "exited"}

\* No artifact packaged or being packaged after event i has its stem.
StemNotReused(i) ==
    \A j \in (i + 1)..Len(seen) :
        Accepted(seen[j]) => seen[j].file # seen[i].file

\* C21: in the installable-package format every artifact is staged in the one
\* staging directory.  After the pipeline of an artifact has run to its end
\* and until the next artifact is read, the staging directory holds the
\* descriptor and the executable container of that artifact and nothing of an
\* earlier one; and the package container of every artifact packaged so far
\* whose stem no later artifact has is on disk as its own pipeline wrote it,
\* whatever resets came after.
C21_SharedStagingKeepsContainers ==
    (InLoop /\ argv1 = "nsp") =>
        /\ \A i \in 1..Len(seen) :
               (Packaged(i) /\ StemNotReused(i)) =>
                   disk[<<seen[i].file, "nsp">>]
                       = ContainerFor("nsp", seen[i].file, NspConfigOf(seen[i]))
        /\ \A i \in 1..Len(seen) :
               (Packaged(i) /\ \A j \in (i + 1)..Len(seen) : ~Accepted(seen[j])) =>
                   /\ exefs.exists
                   /\ StagingFiles = {"main.npdm", "main"}
                   /\ exefs.files["main"] = File("nso", <<seen[i].file>>, TRUE)
                   /\ exefs.files["main.npdm"]
                          = File("npdm", <<"root", NspConfigOf(seen[i]).npdm>>, TRUE)

\* Two artifacts with different stems have been packaged one after the other:
\* the staging directory was reset for the second while the package of the
\* first was on disk.
C21_Witness ==
    /\ InLoop /\ argv1 = "nsp"
    /\ mpc = "loop"
    /\ Len(seen) = 2
    /\ Accepted(seen[1]) /\ Accepted(seen[2])
    /\ seen[1].file # seen[2].file
    /\ exefs.files["main"] = File("nso", <<seen[2].file>>, TRUE)
    /\ disk[<<seen[1].file, "nsp">>].whole
    /\ disk[<<seen[2].file, "nsp">>].whole

====
